---- MODULE Spec2Model ----
(***************************************************************************)
(* react-native-network-quality: the useNetworkQuality hook (the watch     *)
(* session), the one-shot measureNetworkQuality and scoreNetworkQuality.   *)
(*                                                                         *)
(* Encoding.  A JavaScript value that may be null/undefined is a sequence  *)
(* of length 0 (None) or 1 (Some(v)).  downlinkMbps and packetLossPercent  *)
(* are floats in the source; here they are fixed-point numbers in tenths   *)
(* (Scale = 10), so 0.5 % is 5 and the threshold 20 Mbps is 200.           *)
(***************************************************************************)
EXTENDS Integers, Sequences, FiniteSets, TLC

VARIABLES
    options,          \* the hook's argument (UseNetworkQualityOptions)
    phase,            \* "rendered" (effects not run yet), "mounted", "unmounted"
    quality,          \* useState: NetworkQuality | null
    measurement,      \* useState: NetworkMeasurement | null
    isLoading,        \* useState: boolean
    error,            \* useState: string | null
    lastMeasuredAt,   \* useState: number | null
    isMeasuringRef,   \* useRef(false).current
    listeners,        \* number of AppState 'change' listeners of this session registered
    appState,         \* the application state last reported by AppState
    inflight,         \* native measureNetwork calls of this session not yet settled
    now,              \* Date.now()
    runsStarted,      \* number of measureNetworkQuality calls made by the session
    cbLog,            \* the onMeasure invocations made by the last step
    dropped,          \* history: the guard dropped a start request since the last run started
    lastEvent,        \* the last step taken and what it returned
    completedRuns,    \* history: how the last completed run and the last successful run ended
    calls,            \* one-shot measureNetworkQuality calls not yet settled
    natives,          \* native measureNetwork calls made by one-shot calls, not yet settled
    callsStarted,     \* number of one-shot calls made
    lastShot          \* the last one-shot step and what it returned

sessionVars == <<options, phase, quality, measurement, isLoading, error, lastMeasuredAt,
                 isMeasuringRef, listeners, appState, inflight, now, runsStarted,
                 cbLog, dropped, lastEvent, completedRuns>>

shotVars == <<calls, natives, callsStarted, lastShot>>

vars == <<sessionVars, shotVars>>

----------------------------------------------------------------------------
(* Bounds *)

MaxRuns == 2        \* runs one session may start
MaxTime == 1        \* clock ticks
MaxCalls == 2       \* one-shot calls of measureNetworkQuality

----------------------------------------------------------------------------
(* Nullable values *)

None == <<>>
Some(v) == <<v>>

\* a ?? d
Coalesce(a, d) == IF a = None THEN d ELSE a[1]

\* !!a for a boolean | undefined
Truthy(a) == a # None /\ a[1]

Scale == 10

DefaultTimeoutMs == 3000

----------------------------------------------------------------------------
(* Quality scorer *)

SentinelLatencyMs == 999
SentinelDownlink == 0
SentinelLoss == 100 * Scale

\* Scorers with one plausible slip each.  ScoreVariant is the threshold
\* cascade with the sentinels and two of the comparisons left open.
ScoreVariant(conn, latencyMs, downlinkMbps, packetLossPercent, excLatencyBelow, goodDownlinkFrom) ==
    IF ~conn THEN "offline"
    ELSE IF latencyMs < excLatencyBelow /\ downlinkMbps > 20 * Scale /\ packetLossPercent < 1 * Scale
        THEN "excellent"
    ELSE IF latencyMs < 100 /\ downlinkMbps >= goodDownlinkFrom /\ packetLossPercent < 5 * Scale
        THEN "good"
    ELSE IF latencyMs < 200 /\ downlinkMbps >= 1 * Scale /\ packetLossPercent < 10 * Scale
        THEN "fair"
    ELSE "poor"

\* the connectivity test comes after the thresholds
MutantScoreOfflineLast(m) ==
    LET q == ScoreVariant(TRUE, Coalesce(m.latencyMs, SentinelLatencyMs),
                          Coalesce(m.downlinkMbps, SentinelDownlink),
                          Coalesce(m.packetLossPercent, SentinelLoss), 50, 5 * Scale)
    IN  IF q = "poor" /\ ~m.isConnected THEN "offline" ELSE q

\* latency <= 50 counts as excellent
MutantScoreInclusiveExcellent(m) ==
    ScoreVariant(m.isConnected, Coalesce(m.latencyMs, SentinelLatencyMs),
                 Coalesce(m.downlinkMbps, SentinelDownlink),
                 Coalesce(m.packetLossPercent, SentinelLoss), 51, 5 * Scale)

\* good needs downlink > 5 instead of >= 5
MutantScoreStrictGood(m) ==
    ScoreVariant(m.isConnected, Coalesce(m.latencyMs, SentinelLatencyMs),
                 Coalesce(m.downlinkMbps, SentinelDownlink),
                 Coalesce(m.packetLossPercent, SentinelLoss), 50, 5 * Scale + 1)

\* absent metrics are replaced by the best case instead of the worst
MutantScoreOptimisticSentinels(m) ==
    ScoreVariant(m.isConnected, Coalesce(m.latencyMs, 0),
                 Coalesce(m.downlinkMbps, 999 * Scale),
                 Coalesce(m.packetLossPercent, 0), 50, 5 * Scale)

\* an absent latency is replaced by 150 ms
MutantScoreLatencySentinel(m) ==
    ScoreVariant(m.isConnected, Coalesce(m.latencyMs, 150),
                 Coalesce(m.downlinkMbps, SentinelDownlink),
                 Coalesce(m.packetLossPercent, SentinelLoss), 50, 5 * Scale)

\* a record that carries a failureReason is scored poor
MutantScoreReadsFailureReason(m) ==
    LET q == ScoreVariant(m.isConnected, Coalesce(m.latencyMs, SentinelLatencyMs),
                          Coalesce(m.downlinkMbps, SentinelDownlink),
                          Coalesce(m.packetLossPercent, SentinelLoss), 50, 5 * Scale)
    IN  IF m.isConnected /\ m.failureReason # None THEN "poor" ELSE q

scoreNetworkQuality(m) ==
    IF ~m.isConnected THEN "offline"
    ELSE LET latencyMs == Coalesce(m.latencyMs, SentinelLatencyMs)
             downlinkMbps == Coalesce(m.downlinkMbps, SentinelDownlink)
             packetLossPercent == Coalesce(m.packetLossPercent, SentinelLoss)
         IN  IF latencyMs < 50 /\ downlinkMbps > 20 * Scale /\ packetLossPercent < 1 * Scale
                 THEN "excellent"
             ELSE IF latencyMs < 100 /\ downlinkMbps >= 5 * Scale /\ packetLossPercent < 5 * Scale
                 THEN "good"
             ELSE IF latencyMs < 200 /\ downlinkMbps >= 1 * Scale /\ packetLossPercent < 10 * Scale
                 THEN "fair"
             ELSE "poor"

\* a copy that forgets jitterMs
MutantTypedDropsJitter(m) == [m EXCEPT !.jitterMs = None]

\* the record measureNetworkQuality builds from the native record
TypedMeasurement(m) ==
    [timestamp          |-> m.timestamp,
     networkType        |-> m.networkType,
     cellularGeneration |-> m.cellularGeneration,
     wifiRssi           |-> m.wifiRssi,
     cellularRssi       |-> m.cellularRssi,
     latencyMs          |-> m.latencyMs,
     jitterMs           |-> m.jitterMs,
     downlinkMbps       |-> m.downlinkMbps,
     packetLossPercent  |-> m.packetLossPercent,
     isConnected        |-> m.isConnected,
     failureReason      |-> m.failureReason]

\* what measureNetworkQuality resolves with once the native call has resolved with m
NetworkQualityResultOf(m) ==
    [quality     |-> scoreNetworkQuality(TypedMeasurement(m)),
     measurement |-> TypedMeasurement(m)]

----------------------------------------------------------------------------
(* Inputs of the watch session *)

\* an optional boolean: undefined, true, false
OptBool == {None, Some(TRUE), Some(FALSE)}

\* What the consumer's onMeasure does when it is called: "none" is no callback
\* at all, "returns" returns normally, "throws" raises, "refreshes" calls the
\* session's refresh() from inside the callback.
OnMeasureKinds == {"none", "returns", "throws", "refreshes"}

\* UseNetworkQualityOptions.  A hook called without any argument reads every
\* option through options?.x as undefined: that is the record whose fields are
\* all None and whose onMeasure is "none".
\* the extended / timeoutMs pairs the sessions are created with: each value of
\* either option (unspecified, true, false; unspecified, a number) occurs
MeasureOptionChoices ==
    { [extended |-> None,        timeoutMs |-> None],
      [extended |-> Some(TRUE),  timeoutMs |-> None],
      [extended |-> Some(FALSE), timeoutMs |-> Some(1000)] }

OptionsSet ==
    { [measureOnResume |-> r, measureOnMount |-> m, extended |-> c.extended,
       timeoutMs |-> c.timeoutMs, onMeasure |-> k] :
         r \in OptBool, m \in OptBool, c \in MeasureOptionChoices, k \in OnMeasureKinds }

NoOptions ==
    [measureOnResume |-> None, measureOnMount |-> None, extended |-> None,
     timeoutMs |-> None, onMeasure |-> "none"]

\* Records the native measureNetwork may resolve with (NetworkMeasurement).
Rec(conn, lat, down, loss, why) ==
    [timestamp |-> 1, networkType |-> IF conn THEN "wifi" ELSE "none",
     cellularGeneration |-> "unknown", wifiRssi |-> None, cellularRssi |-> None,
     latencyMs |-> lat, jitterMs |-> None, downlinkMbps |-> down,
     packetLossPercent |-> loss, isConnected |-> conn, failureReason |-> why]

NativeRecords ==
    { Rec(TRUE, Some(30), Some(25 * Scale), Some(2), None),          \* excellent
      Rec(TRUE, None, Some(10 * Scale), Some(5), None),              \* latency failed
      Rec(TRUE, None, None, None, Some("timeout")),                  \* empty, degraded
      Rec(FALSE, None, None, None, Some("offline")) }                \* offline

\* Values the native promise may reject with: an Error object, or (as any
\* thrown JavaScript value may be) something that is not an Error.
\* message is err.message (None when err is no Error), str is String(err).
Rejections ==
    { [isError |-> TRUE, message |-> Some("timeout"), str |-> "Error: timeout"],
      [isError |-> FALSE, message |-> None, str |-> "native fault"] }

\* the value an onMeasure callback of kind "throws" raises
CallbackError ==
    [isError |-> TRUE, message |-> Some("callback failed"), str |-> "Error: callback failed"]

\* err instanceof Error ? err.message : String(err)
ErrorMsg(err) == IF err.isError THEN err.message[1] ELSE err.str

AppStates == {"active", "background", "inactive"}

----------------------------------------------------------------------------
(* The session as a value: the hook's state cells, its ref, the native calls *)
(* it has in flight and what the current step has observed so far.           *)

Session ==
    [quality |-> quality, measurement |-> measurement, isLoading |-> isLoading,
     error |-> error, lastMeasuredAt |-> lastMeasuredAt,
     isMeasuringRef |-> isMeasuringRef, inflight |-> inflight,
     runsStarted |-> runsStarted, cbLog |-> <<>>, dropped |-> dropped,
     alive |-> phase # "unmounted"]

\* A useState setter.  React drops the update of a component that has unmounted.
SetState(s, cell, v) == IF s.alive THEN [s EXCEPT ![cell] = v] ELSE s

\* if (isMeasuringRef.current) return;
MutantBusyNever(s) == FALSE

Busy(s) == s.isMeasuringRef

\* defaults applied with || instead of ??: a configured false is replaced too
MutantMeasureArgsFalsy(o) ==
    [extended  |-> IF Truthy(o.extended) THEN o.extended[1] ELSE TRUE,
     timeoutMs |-> Coalesce(o.timeoutMs, DefaultTimeoutMs)]

\* the arguments performMeasurement passes to measureNetworkQuality
MeasureArgs(o) ==
    [extended  |-> Coalesce(o.extended, TRUE),
     timeoutMs |-> Coalesce(o.timeoutMs, DefaultTimeoutMs)]

\* performMeasurement up to its await: the guard, the flag, the two setters and
\* the call of measureNetworkQuality, which calls the native measureNetwork
\* before it first suspends.  Returns the session and whether a run started.
PerformStart(s, o, origin) ==
    IF Busy(s) THEN [s EXCEPT !.dropped = TRUE]
    ELSE LET s1 == [s EXCEPT !.isMeasuringRef = TRUE, !.dropped = FALSE]
             s2 == SetState(s1, "isLoading", TRUE)
             s3 == SetState(s2, "error", None)
         IN  [s3 EXCEPT !.inflight = Append(@, [origin |-> origin, args |-> MeasureArgs(o)]),
                        !.runsStarted = @ + 1]

\* options?.onMeasure?.(result, err): returns the session after the call and
\* whether the callback raised.  A "refreshes" callback calls refresh(); it is
\* consumer code, and stops doing so after MaxRuns runs.
InvokeOnMeasure(s, o, result, err) ==
    LET logged == [s EXCEPT !.cbLog = Append(@, [result |-> result, error |-> err])]
    IN  CASE o.onMeasure = "none"      -> [s |-> s, threw |-> FALSE]
          [] o.onMeasure = "returns"   -> [s |-> logged, threw |-> FALSE]
          [] o.onMeasure = "throws"    -> [s |-> logged, threw |-> TRUE]
          [] o.onMeasure = "refreshes" ->
                [s |-> IF logged.runsStarted < MaxRuns
                          THEN PerformStart(logged, o, "refresh") ELSE logged,
                 threw |-> FALSE]

\* a finally block that resets isLoading but leaves the flag set
MutantFinallyKeepsFlag(s) == SetState(s, "isLoading", FALSE)

\* a finally block that clears the flag but leaves isLoading set
MutantFinallyKeepsLoading(s) == [s EXCEPT !.isMeasuringRef = FALSE]

\* finally { setIsLoading(false); isMeasuringRef.current = false; }
Finally(s) ==
    [SetState(s, "isLoading", FALSE) EXCEPT !.isMeasuringRef = FALSE]

\* a catch block that reports the error but leaves the stale quality
MutantCatchKeepsQuality(s, o, err) ==
    LET errorMsg == ErrorMsg(err)
        s1 == SetState(s, "error", Some(errorMsg))
        cb == InvokeOnMeasure(s1, o, None, Some(errorMsg))
    IN  [s |-> Finally(cb.s),
         settled |-> IF cb.threw THEN "rejected" ELSE "undefined"]

\* a catch block followed by the cleanup instead of a finally block: the
\* cleanup is skipped when onMeasure raises inside the handler
MutantCatchThenCleanup(s, o, err) ==
    LET errorMsg == ErrorMsg(err)
        s1 == SetState(s, "error", Some(errorMsg))
        s2 == SetState(s1, "quality", None)
        cb == InvokeOnMeasure(s2, o, None, Some(errorMsg))
    IN  IF cb.threw THEN [s |-> cb.s, settled |-> "rejected"]
        ELSE [s |-> Finally(cb.s), settled |-> "undefined"]

\* a catch block that also drops the record of the last successful run
MutantCatchClearsMeasurement(s, o, err) ==
    LET errorMsg == ErrorMsg(err)
        s1 == SetState(s, "error", Some(errorMsg))
        s2 == SetState(s1, "quality", None)
        s3 == SetState(s2, "measurement", None)
        cb == InvokeOnMeasure(s3, o, None, Some(errorMsg))
    IN  [s |-> Finally(cb.s),
         settled |-> IF cb.threw THEN "rejected" ELSE "undefined"]

\* a catch block that also forgets when the session last measured
MutantCatchClearsTimestamp(s, o, err) ==
    LET errorMsg == ErrorMsg(err)
        s1 == SetState(s, "error", Some(errorMsg))
        s2 == SetState(s1, "quality", None)
        s3 == SetState(s2, "lastMeasuredAt", None)
        cb == InvokeOnMeasure(s3, o, None, Some(errorMsg))
    IN  [s |-> Finally(cb.s),
         settled |-> IF cb.threw THEN "rejected" ELSE "undefined"]

\* catch (err) { ... }: the promise of performMeasurement resolves with
\* undefined, or rejects when onMeasure raises inside the handler.
Catch(s, o, err) ==
    LET errorMsg == ErrorMsg(err)
        s1 == SetState(s, "error", Some(errorMsg))
        s2 == SetState(s1, "quality", None)
        cb == InvokeOnMeasure(s2, o, None, Some(errorMsg))
    IN  [s |-> Finally(cb.s),
         settled |-> IF cb.threw THEN "rejected" ELSE "undefined"]

\* a try body that publishes the new tier without the new record
MutantTryKeepsMeasurement(s, o, result, t) ==
    LET s1 == SetState(s, "quality", Some(result.quality))
        s3 == SetState(s1, "lastMeasuredAt", Some(t))
        cb == InvokeOnMeasure(s3, o, Some(result), None)
    IN  IF cb.threw THEN Catch(cb.s, o, CallbackError)
        ELSE [s |-> Finally(cb.s), settled |-> "result"]

\* a try body that clears the flag before it calls onMeasure
MutantTryClearsFlagFirst(s, o, result, t) ==
    LET s1 == SetState(s, "quality", Some(result.quality))
        s2 == SetState(s1, "measurement", Some(result.measurement))
        s3 == SetState(s2, "lastMeasuredAt", Some(t))
        cb == InvokeOnMeasure(Finally(s3), o, Some(result), None)
    IN  IF cb.threw THEN Catch(cb.s, o, CallbackError)
        ELSE [s |-> cb.s, settled |-> "result"]

\* the body of try { ... } after the await has produced result
Try(s, o, result, t) ==
    LET s1 == SetState(s, "quality", Some(result.quality))
        s2 == SetState(s1, "measurement", Some(result.measurement))
        s3 == SetState(s2, "lastMeasuredAt", Some(t))
        cb == InvokeOnMeasure(s3, o, Some(result), None)
    IN  IF cb.threw THEN Catch(cb.s, o, CallbackError)
        ELSE [s |-> Finally(cb.s), settled |-> "result"]

\* performMeasurement from its await on, for native outcome out at time t
PerformSettle(s, o, out, t) ==
    IF out.ok THEN Try(s, o, NetworkQualityResultOf(out.record), t)
    ELSE Catch(s, o, out.err)

\* placeholders for the half of an outcome that does not apply
NoRecord == Rec(FALSE, None, None, None, None)
NoRejection == [isError |-> FALSE, message |-> None, str |-> ""]

\* how the native measureNetwork promise may settle
Outcomes ==
    {[ok |-> TRUE, record |-> r, err |-> NoRejection] : r \in NativeRecords}
    \cup {[ok |-> FALSE, record |-> NoRecord, err |-> e] : e \in Rejections}

\* remove the i-th element of a sequence
RemoveAt(q, i) == SubSeq(q, 1, i - 1) \o SubSeq(q, i + 1, Len(q))

\* the session written back to the variables
Commit(s) ==
    /\ quality' = s.quality
    /\ measurement' = s.measurement
    /\ isLoading' = s.isLoading
    /\ error' = s.error
    /\ lastMeasuredAt' = s.lastMeasuredAt
    /\ isMeasuringRef' = s.isMeasuringRef
    /\ inflight' = s.inflight
    /\ runsStarted' = s.runsStarted
    /\ cbLog' = s.cbLog
    /\ dropped' = s.dropped

Event(kind, origin, busy, settled, outcome) ==
    [kind |-> kind, origin |-> origin, busy |-> busy, settled |-> settled,
     outcome |-> outcome]

NoOutcome == [ok |-> FALSE, record |-> NoRecord, err |-> NoRejection]

----------------------------------------------------------------------------
(* The one-shot accessor: measureNetworkQuality called by the consumer *)

\* MeasureOptions as the consumer passes it: no argument, or an object
ShotOptions ==
    { None,
      Some([extended |-> None, timeoutMs |-> None]),
      Some([extended |-> Some(FALSE), timeoutMs |-> Some(1000)]) }

\* the fields of a record that the scorer does not read
AuxVariants ==
    { [timestamp |-> 1, networkType |-> "wifi", cellularGeneration |-> "unknown",
       wifiRssi |-> Some(0 - 55), cellularRssi |-> None, jitterMs |-> Some(4),
       failureReason |-> None],
      [timestamp |-> 2, networkType |-> "cellular", cellularGeneration |-> "4G",
       wifiRssi |-> None, cellularRssi |-> Some(0 - 110), jitterMs |-> None,
       failureReason |-> Some("timeout")] }

GridLatency == {None} \cup {Some(v) : v \in {30, 49, 50, 99, 100, 150, 199, 200}}

GridDownlink ==
    {None} \cup {Some(v) : v \in {5, 1 * Scale - 1, 1 * Scale, 2 * Scale, 5 * Scale - 1,
                                  5 * Scale, 10 * Scale, 20 * Scale, 20 * Scale + 1,
                                  25 * Scale}}

GridLoss ==
    {None} \cup {Some(v) : v \in {2, 5, 1 * Scale - 1, 1 * Scale, 3 * Scale, 5 * Scale - 1,
                                  5 * Scale, 10 * Scale - 1, 10 * Scale}}

\* native records on a grid around the scorer's thresholds
GridRecords ==
    { [timestamp |-> a.timestamp, networkType |-> a.networkType,
       cellularGeneration |-> a.cellularGeneration, wifiRssi |-> a.wifiRssi,
       cellularRssi |-> a.cellularRssi, latencyMs |-> lat, jitterMs |-> a.jitterMs,
       downlinkMbps |-> down, packetLossPercent |-> loss, isConnected |-> conn,
       failureReason |-> a.failureReason] :
         a \in AuxVariants, lat \in GridLatency, down \in GridDownlink,
         loss \in GridLoss, conn \in BOOLEAN }

GridOutcomes ==
    {[ok |-> TRUE, record |-> r, err |-> NoRejection] : r \in GridRecords}
    \cup {[ok |-> FALSE, record |-> NoRecord, err |-> e] : e \in Rejections}

\* NativeNetworkQualityModule.measureNetwork(options): the native calls one
\* call of measureNetworkQuality makes, with their argument
NativeInvocations(o) == <<o>>

\* a one-shot call that fails when the latency probe produced nothing
MutantSettleRejectsWithoutLatency(out) ==
    IF out.ok /\ out.record.latencyMs # None
        THEN [status |-> "resolved", value |-> Some(NetworkQualityResultOf(out.record))]
        ELSE [status |-> "rejected", value |-> None]

\* measureNetworkQuality from its await on: the settlement of its promise for
\* native outcome out
MeasureSettle(out) ==
    IF out.ok
        THEN [status |-> "resolved", value |-> Some(NetworkQualityResultOf(out.record))]
        ELSE [status |-> "rejected", value |-> None]

Shot(kind, id, args, outcome, status, value) ==
    [kind |-> kind, id |-> id, args |-> args, outcome |-> outcome, status |-> status,
     value |-> value]

\* the consumer calls measureNetworkQuality(o)
ShotCall(o) ==
    /\ callsStarted < MaxCalls
    /\ callsStarted' = callsStarted + 1
    /\ calls' = Append(calls, [id |-> callsStarted', options |-> o])
    /\ natives' = natives \o [k \in 1..Len(NativeInvocations(o)) |->
                                [call |-> callsStarted', args |-> NativeInvocations(o)[k]]]
    /\ lastShot' = Shot("call", callsStarted', o, NoOutcome, "pending", None)
    /\ UNCHANGED sessionVars

\* the i-th native call made by a one-shot call settles with out, and the
\* call that awaits it settles
ShotSettle(i, out) ==
    /\ i \in 1..Len(natives)
    /\ natives' = RemoveAt(natives, i)
    /\ calls' = SelectSeq(calls, LAMBDA c : c.id # natives[i].call)
    /\ LET r == MeasureSettle(out)
       IN  lastShot' = Shot("settle", natives[i].call, natives[i].args, out,
                           r.status, r.value)
    /\ UNCHANGED <<callsStarted, sessionVars>>

----------------------------------------------------------------------------
(* Effects and listener conditions *)

\* if (options?.measureOnMount !== false)
MutantMountOnlyWhenTrue(o) == o.measureOnMount = Some(TRUE)

MountMeasures(o) == o.measureOnMount # Some(FALSE)

\* if (!options?.measureOnResume) return;   (otherwise the listener is added)
MutantResumeAlways(o) == TRUE

ResumeSubscribes(o) == Truthy(o.measureOnResume)

\* if (state === 'active')
MutantListenerAnyState(st) == TRUE

ListenerFires(st) == st = "active"

\* the resume effect run with options o while n listeners are registered:
\* AppState.addEventListener('change', ...) unless it returned early
ResumeEffect(n, o) == IF ResumeSubscribes(o) THEN n + 1 ELSE n

\* a cleanup that leaves the listener registered
MutantCleanupKeepsListener(n, o) == n

\* the cleanup of the resume effect that ran with options o: the effect
\* returned one (subscription.remove()) only when it had subscribed
ResumeCleanup(n, o) == IF ResumeSubscribes(o) THEN n - 1 ELSE n

\* AppState calls each of the n registered listeners with the new state st
RECURSIVE Notify(_, _, _, _)
Notify(s, o, st, n) ==
    IF n = 0 THEN s
    ELSE Notify(IF ListenerFires(st) THEN PerformStart(s, o, "resume") ELSE s, o, st, n - 1)

----------------------------------------------------------------------------
(* Actions *)

Init ==
    /\ options \in OptionsSet
    /\ phase = "rendered"
    /\ quality = None
    /\ measurement = None
    /\ isLoading = FALSE
    /\ error = None
    /\ lastMeasuredAt = None
    /\ isMeasuringRef = FALSE
    /\ listeners = 0
    /\ appState = "active"
    /\ inflight = <<>>
    /\ now = 0
    /\ runsStarted = 0
    /\ cbLog = <<>>
    /\ dropped = FALSE
    /\ lastEvent = Event("init", "none", FALSE, "none", NoOutcome)
    /\ completedRuns = [last |-> NoOutcome, lastOk |-> None]
    /\ calls = <<>>
    /\ natives = <<>>
    /\ callsStarted = 0
    /\ lastShot = Shot("init", 0, None, NoOutcome, "none", None)

\* what the promise of a performMeasurement call is right after the call
Returned(before, after) ==
    IF after.runsStarted > before.runsStarted THEN "pending" ELSE "undefined"

\* The effects of the first commit, in source order: the mount effect, then
\* the resume effect.
Mount ==
    /\ phase = "rendered"
    /\ phase' = "mounted"
    /\ LET s == IF MountMeasures(options)
                   THEN PerformStart(Session, options, "mount") ELSE Session
       IN  /\ Commit(s)
           /\ lastEvent' = Event("mount", "mount", isMeasuringRef,
                                 Returned(Session, s), NoOutcome)
    /\ listeners' = ResumeEffect(listeners, options)
    /\ UNCHANGED <<options, appState, now, completedRuns>>
    /\ UNCHANGED shotVars

\* the consumer calls refresh()
Refresh ==
    /\ phase = "mounted"
    /\ runsStarted < MaxRuns
    /\ LET s == PerformStart(Session, options, "refresh")
       IN  /\ Commit(s)
           /\ lastEvent' = Event("refresh", "refresh", isMeasuringRef,
                                 Returned(Session, s), NoOutcome)
    /\ UNCHANGED <<options, phase, listeners, appState, now, completedRuns>>
    /\ UNCHANGED shotVars

\* AppState emits 'change' with the new state st
AppStateChange(st) ==
    /\ st # appState
    /\ appState' = st
    /\ (listeners > 0 /\ ListenerFires(st)) => runsStarted < MaxRuns
    /\ LET s == Notify(Session, options, st, listeners)
       IN  /\ Commit(s)
           /\ lastEvent' = Event("appstate", st, isMeasuringRef,
                                 Returned(Session, s), NoOutcome)
    /\ UNCHANGED <<options, phase, listeners, now, completedRuns>>
    /\ UNCHANGED shotVars

\* the native promise of the i-th call in flight settles with out, and the
\* continuations of measureNetworkQuality and performMeasurement run
Complete(i, out) ==
    /\ i \in 1..Len(inflight)
    /\ LET s0 == [Session EXCEPT !.inflight = RemoveAt(@, i)]
           r  == PerformSettle(s0, options, out, now)
       IN  /\ Commit(r.s)
           /\ lastEvent' = Event("complete", inflight[i].origin, isMeasuringRef,
                                 r.settled, out)
    /\ completedRuns' = [last   |-> out,
                         lastOk |-> IF out.ok THEN Some([record |-> out.record, at |-> now])
                                    ELSE completedRuns.lastOk]
    /\ UNCHANGED <<options, phase, listeners, appState, now>>
    /\ UNCHANGED shotVars

\* the component renders again with another measureOnResume: the resume
\* effect's dependency changed, so its cleanup runs and the effect runs again
Rerender(v) ==
    /\ phase = "mounted"
    /\ v # options.measureOnResume
    /\ options' = [options EXCEPT !.measureOnResume = v]
    /\ listeners' = ResumeEffect(ResumeCleanup(listeners, options), options')
    /\ lastEvent' = Event("rerender", "none", isMeasuringRef, "none", NoOutcome)
    /\ cbLog' = <<>>
    /\ UNCHANGED <<phase, quality, measurement, isLoading, error, lastMeasuredAt,
                   isMeasuringRef, appState, inflight, now, runsStarted, dropped,
                   completedRuns>>
    /\ UNCHANGED shotVars

\* the component unmounts: the resume effect's cleanup removes the listener
Unmount ==
    /\ phase = "mounted"
    /\ phase' = "unmounted"
    /\ listeners' = ResumeCleanup(listeners, options)
    /\ lastEvent' = Event("unmount", "none", isMeasuringRef, "none", NoOutcome)
    /\ cbLog' = <<>>
    /\ UNCHANGED <<options, quality, measurement, isLoading, error, lastMeasuredAt,
                   isMeasuringRef, appState, inflight, now, runsStarted, dropped,
                   completedRuns>>
    /\ UNCHANGED shotVars

\* time passes
Tick ==
    /\ now < MaxTime
    /\ now' = now + 1
    /\ lastEvent' = Event("tick", "none", isMeasuringRef, "none", NoOutcome)
    /\ cbLog' = <<>>
    /\ UNCHANGED <<options, phase, quality, measurement, isLoading, error,
                   lastMeasuredAt, isMeasuringRef, listeners, appState, inflight,
                   runsStarted, dropped, completedRuns>>
    /\ UNCHANGED shotVars

Next ==
    \/ Mount
    \/ Refresh
    \/ \E st \in AppStates : AppStateChange(st)
    \/ \E i \in 1..MaxRuns, out \in Outcomes : Complete(i, out)
    \/ \E v \in OptBool : Rerender(v)
    \/ Unmount
    \/ Tick

Spec == Init /\ [][Next]_vars

\* One-shot calls alone.  A call that is alone in flight settles with any
\* outcome of the grid; overlapping calls settle with the outcomes the watch
\* session is run with.
ShotInit == Init /\ options = NoOptions

ShotNext ==
    \/ \E o \in ShotOptions : ShotCall(o)
    \/ \E out \in GridOutcomes : Len(natives) = 1 /\ ShotSettle(1, out)
    \/ \E i \in 1..MaxCalls, out \in Outcomes : Len(natives) > 1 /\ ShotSettle(i, out)

ShotSpec == ShotInit /\ [][ShotNext]_vars

\* a step in which the native call of a run settles
CompleteStep == \E i \in 1..MaxRuns, out \in Outcomes : Complete(i, out)

\* The native measureNetwork enforces timeoutMs as a hard ceiling over its
\* probes: a call in flight does not stay pending for ever, it settles with
\* what has been measured (a record, possibly empty) or is rejected.
NativeDeadline == WF_vars(CompleteStep)

\* The watch session with a native layer that keeps its deadline; the clock
\* and the re-renders, which start and end no run, are left out, and the
\* sessions are those created without extended and timeoutMs.
LiveInit == Init /\ options.extended = None /\ options.timeoutMs = None

LiveNext ==
    \/ Mount
    \/ Refresh
    \/ \E st \in AppStates : AppStateChange(st)
    \/ \E i \in 1..MaxRuns, out \in Outcomes : Complete(i, out)
    \/ Unmount

LiveSpec == LiveInit /\ [][LiveNext]_vars /\ NativeDeadline

\* the extended flag the native layer reads from its argument (default true)
NativeExtended(args) == args = None \/ args[1].extended # Some(FALSE)

\* The orchestrator runs the packet-loss probe only for an extended run: the
\* record of a run with extended = false carries no packetLossPercent.
NativeHonoursExtended(args, out) ==
    (out.ok /\ ~NativeExtended(args)) => out.record.packetLossPercent = None

\* One-shot calls with a native layer that honours extended.
ExtendedNext ==
    \/ \E o \in ShotOptions : ShotCall(o)
    \/ \E out \in GridOutcomes :
          /\ Len(natives) = 1
          /\ NativeHonoursExtended(natives[1].args, out)
          /\ ShotSettle(1, out)
    \/ \E i \in 1..MaxCalls, out \in Outcomes :
          /\ Len(natives) > 1
          /\ i <= Len(natives)
          /\ NativeHonoursExtended(natives[i].args, out)
          /\ ShotSettle(i, out)

ExtendedSpec == ShotInit /\ [][ExtendedNext]_vars

\* One watch session and one-shot calls side by side.
LibNext ==
    \/ Mount
    \/ Refresh
    \/ \E i \in 1..MaxRuns, out \in Outcomes : Complete(i, out)
    \/ \E o \in ShotOptions : ShotCall(o)
    \/ \E i \in 1..MaxCalls, out \in Outcomes : ShotSettle(i, out)

LibSpec == ShotInit /\ [][LibNext]_vars

----------------------------------------------------------------------------
(* Claims *)

AnyAppStateChange == \E st \in AppStates : AppStateChange(st)

\* a step in which performMeasurement is called from outside a completion
TriggerStep == Mount \/ Refresh \/ AnyAppStateChange

\* C1: in every reachable state at most one measureNetworkQuality run started
\* by the session is in flight, whatever the interleaving of the mount
\* trigger, app-resume events and refresh() calls.
C1_AtMostOneRunInFlight == Len(inflight) <= 1

\* a trigger has just arrived while the session's run was in flight
C1_Witness ==
    /\ Len(inflight) = 1
    /\ lastEvent.kind \in {"refresh", "appstate"}
    /\ lastEvent.busy
    /\ dropped

\* C2: refresh() called while a run of the session is in flight performs no
\* second run and causes no state transition: quality, measurement, error,
\* lastMeasuredAt and isLoading are unchanged, onMeasure is not invoked, and
\* the call returns nothing new.
C2_RefreshWhileMeasuringIsNoOp ==
    [][(Refresh /\ isMeasuringRef) =>
          /\ UNCHANGED <<quality, measurement, error, lastMeasuredAt, isLoading>>
          /\ UNCHANGED <<inflight, runsStarted, isMeasuringRef>>
          /\ cbLog' = <<>>
          /\ lastEvent'.settled = "undefined"]_vars

\* refresh() has just been called with the session's one run still in flight
C2_Witness ==
    /\ lastEvent.kind = "refresh"
    /\ lastEvent.busy
    /\ lastEvent.settled = "undefined"
    /\ Len(inflight) = 1
    /\ isLoading

\* C3: a start request arriving while Measuring is not queued.  A run starts
\* only in a step in which a trigger arrives while the flag is clear, and that
\* step starts exactly one; a completion starts none.  Hence the runs started
\* never exceed the triggers accepted while not Measuring.
C3_NoQueuedStart ==
    [][runsStarted' # runsStarted =>
          /\ ~isMeasuringRef
          /\ TriggerStep
          /\ runsStarted' = runsStarted + 1]_vars

\* a run has completed during which a start request was dropped, and nothing
\* is in flight afterwards
C3_Witness ==
    /\ lastEvent.kind = "complete"
    /\ dropped
    /\ inflight = <<>>
    /\ ~isMeasuringRef
    /\ runsStarted = 1

\* C4: with measureOnResume = true a change to 'active' while no run is in
\* flight starts exactly one run; with measureOnResume = false no application
\* state change starts a run; a change to a state other than 'active' never
\* starts a run.
C4_ResumeTrigger ==
    [][AnyAppStateChange =>
          /\ (/\ phase = "mounted"
              /\ options.measureOnResume = Some(TRUE)
              /\ appState' = "active"
              /\ ~isMeasuringRef)
                => /\ runsStarted' = runsStarted + 1
                   /\ Len(inflight') = Len(inflight) + 1
                   /\ inflight'[Len(inflight')].origin = "resume"
          /\ options.measureOnResume = Some(FALSE) => UNCHANGED <<runsStarted, inflight>>
          /\ appState' # "active" => UNCHANGED <<runsStarted, inflight>>]_vars

\* the application has just become active for an idle session that asked for
\* measureOnResume, and a run was started
C4_Witness ==
    /\ lastEvent.kind = "appstate"
    /\ lastEvent.origin = "active"
    /\ ~lastEvent.busy
    /\ options.measureOnResume = Some(TRUE)
    /\ lastEvent.settled = "pending"
    /\ Len(inflight) = 1

\* C5: measureOnResume defaults to true: a session created without it starts
\* a run on every application-resume-to-active transition, exactly as a
\* session created with measureOnResume = true does (C4).
C5_ResumeDefaultsToTrue ==
    [][(/\ AnyAppStateChange
        /\ phase = "mounted"
        /\ options.measureOnResume = None
        /\ appState' = "active"
        /\ ~isMeasuringRef)
          => /\ runsStarted' = runsStarted + 1
             /\ Len(inflight') = Len(inflight) + 1]_vars

\* C6: on creation exactly one run is started when measureOnMount is true or
\* unspecified and none when it is false; the mount trigger fires at most
\* once: only the first commit starts a run of origin "mount", and the session
\* never returns to the state before its first commit.
C6_MountTrigger ==
    [][/\ Mount =>
            /\ runsStarted = 0 /\ inflight = <<>>
            /\ IF options.measureOnMount = Some(FALSE)
                  THEN runsStarted' = 0 /\ inflight' = <<>>
                  ELSE /\ runsStarted' = 1
                       /\ Len(inflight') = 1
                       /\ inflight'[1].origin = "mount"
       /\ phase # "rendered" => phase' # "rendered"
       /\ (\E i \in 1..Len(inflight') :
              /\ inflight'[i].origin = "mount"
              /\ (i > Len(inflight) \/ inflight[i].origin # "mount"))
            => Mount]_vars

\* the effects of the first commit have just run for a session that did not
\* specify measureOnMount, and its one run is in flight
C6_Witness ==
    /\ lastEvent.kind = "mount"
    /\ options.measureOnMount = None
    /\ runsStarted = 1
    /\ Len(inflight) = 1
    /\ isLoading

\* a run of the live session has just completed with native outcome ok / not ok
CompletedOk == lastEvent.kind = "complete" /\ lastEvent.outcome.ok /\ phase # "unmounted"
CompletedFailed == lastEvent.kind = "complete" /\ ~lastEvent.outcome.ok /\ phase # "unmounted"

\* the one onMeasure invocation of a step, when the session has a callback
Invoked(result, err) ==
    options.onMeasure # "none" => cbLog = <<[result |-> result, error |-> err]>>

\* C7: when an in-flight run completes successfully, quality and measurement
\* are that run's result, lastMeasuredAt is the completion time, error is
\* null, and onMeasure is invoked with (result, null).
C7_SuccessTransition ==
    CompletedOk =>
        LET result == NetworkQualityResultOf(lastEvent.outcome.record)
        IN  /\ quality = Some(result.quality)
            /\ measurement = Some(result.measurement)
            /\ lastMeasuredAt = Some(now)
            /\ error = None
            /\ Invoked(Some(result), None)

\* C8: when the underlying call of an in-flight run rejects, quality becomes
\* null, error is the failure message, and onMeasure is invoked with
\* (null, error).
C8_FailureTransition ==
    CompletedFailed =>
        LET msg == IF lastEvent.outcome.err.isError
                      THEN lastEvent.outcome.err.message[1]
                      ELSE lastEvent.outcome.err.str
        IN  /\ quality = None
            /\ error = Some(msg)
            /\ Invoked(None, Some(msg))

\* a run that followed a successful one has just failed, with a callback set
C8_Witness ==
    /\ CompletedFailed
    /\ options.onMeasure = "returns"
    /\ measurement # None
    /\ runsStarted = 2
    /\ Len(cbLog) = 1

\* C9: a returned record is never a failure of the session: a run whose
\* native call resolved takes the success transition (error null, quality the
\* score of the record, 'offline' when isConnected is false), and only a run
\* whose call rejected takes the failure transition.
C9_ReturnedRecordIsSuccess ==
    (lastEvent.kind = "complete" /\ phase # "unmounted") =>
        /\ lastEvent.outcome.ok <=> error = None
        /\ lastEvent.outcome.ok =>
              /\ quality = Some(scoreNetworkQuality(lastEvent.outcome.record))
              /\ (~lastEvent.outcome.record.isConnected => quality = Some("offline"))

\* C10: the promise returned by refresh() resolves with the result of a newly
\* performed measurement and is rejected when that measurement fails.
C10_RefreshResolvesOrRejects ==
    /\ lastEvent.kind = "refresh" => lastEvent.settled = "pending"
    /\ (lastEvent.kind = "complete" /\ lastEvent.origin = "refresh") =>
          lastEvent.settled = IF lastEvent.outcome.ok THEN "result" ELSE "rejected"

\* C11: the mutual-exclusion flag is set in the step that checks it and is
\* cleared only after the completion handling, the onMeasure callback
\* included, has finished: the flag is set whenever a run is in flight, a
\* trigger that starts a run leaves it set, and a completion starts no run,
\* so a refresh() issued from inside onMeasure of the completing run is
\* dropped as a no-op.
C11_FlagCoversCompletion ==
    /\ [](inflight # <<>> => isMeasuringRef)
    /\ [][/\ (TriggerStep /\ runsStarted' # runsStarted) =>
                (~isMeasuringRef /\ isMeasuringRef')
          /\ CompleteStep =>
                /\ isMeasuringRef
                /\ UNCHANGED runsStarted
                /\ Len(inflight') = Len(inflight) - 1
                /\ (options.onMeasure = "refreshes" /\ runsStarted < MaxRuns)
                      => (dropped' /\ ~isMeasuringRef' /\ inflight' = <<>>)]_vars

\* a run has just completed whose onMeasure called refresh(): the request was
\* dropped and nothing is in flight
C11_Witness ==
    /\ lastEvent.kind = "complete"
    /\ lastEvent.outcome.ok
    /\ options.onMeasure = "refreshes"
    /\ runsStarted < MaxRuns
    /\ Len(cbLog) = 1
    /\ dropped
    /\ inflight = <<>>
    /\ ~isMeasuringRef

\* the native calls in flight that one-shot call c awaits
NativesOf(c) == {j \in 1..Len(natives) : natives[j].call = c.id}

\* C12 as stated: over all access patterns (overlapping one-shot calls and
\* watch sessions) at most one native measureNetwork call is in flight.
C12_AtMostOneNativeCall == Len(inflight) + Len(natives) <= 1

\* C12 as amended: at most one native call started by a watch session is in
\* flight; one-shot calls are not serialised, every one-shot call in flight
\* has its own native call in flight whatever else is running.
C12_ExclusionIsPerSession ==
    /\ Len(inflight) <= 1
    /\ \A k \in 1..Len(calls) : Cardinality(NativesOf(calls[k])) = 1
    /\ Len(natives) = Len(calls)

\* a session run and two overlapping one-shot calls are in flight together
C12_Witness ==
    /\ Len(inflight) = 1
    /\ isMeasuringRef
    /\ Len(calls) = 2
    /\ Len(natives) = 2

\* a one-shot call has just settled after the native call resolved / rejected
ShotResolved == lastShot.kind = "settle" /\ lastShot.outcome.ok
ShotRejected == lastShot.kind = "settle" /\ ~lastShot.outcome.ok

Tiers == {"offline", "poor", "fair", "good", "excellent"}

\* C13: each call of measureNetworkQuality(options) invokes the native
\* measureNetwork exactly once, with those options, and when it resolves the
\* returned pair has quality = scoreNetworkQuality(measurement), where
\* measurement carries the native record's fields unchanged.
C13_OneShotInvokesOnceAndScores ==
    /\ \A k \in 1..Len(calls) :
          /\ Cardinality(NativesOf(calls[k])) = 1
          /\ \A j \in NativesOf(calls[k]) : natives[j].args = calls[k].options
    /\ \A j \in 1..Len(natives) : \E k \in 1..Len(calls) : calls[k].id = natives[j].call
    /\ ShotResolved =>
          /\ lastShot.status = "resolved"
          /\ lastShot.value # None
          /\ lastShot.value[1].measurement = lastShot.outcome.record
          /\ lastShot.value[1].quality = scoreNetworkQuality(lastShot.value[1].measurement)

\* the second of two one-shot calls has resolved with a record that carries
\* jitter and signal strength
C13_Witness ==
    /\ ShotResolved
    /\ callsStarted = 2
    /\ lastShot.id = 2
    /\ lastShot.outcome.record.jitterMs # None
    /\ lastShot.outcome.record.wifiRssi # None
    /\ lastShot.value[1].quality = "good"

\* C14: the one-shot measureNetworkQuality signals failure if and only if the
\* native call itself fails; it never fails because fields of the returned
\* record are null, and then still returns a tier.
C14_OneShotFailsOnlyOnNativeFailure ==
    lastShot.kind = "settle" =>
        /\ lastShot.status = "rejected" <=> ~lastShot.outcome.ok
        /\ lastShot.outcome.ok =>
              /\ lastShot.status = "resolved"
              /\ lastShot.value # None
              /\ lastShot.value[1].quality \in Tiers

\* a one-shot call has resolved although every metric of the record is null
C14_Witness ==
    /\ ShotResolved
    /\ lastShot.outcome.record.isConnected
    /\ lastShot.outcome.record.latencyMs = None
    /\ lastShot.outcome.record.downlinkMbps = None
    /\ lastShot.outcome.record.packetLossPercent = None
    /\ lastShot.status = "resolved"
    /\ lastShot.value[1].quality = "poor"

\* the record the last one-shot call was resolved from, and the tier returned
ShotRecord == lastShot.outcome.record
ShotTier == lastShot.value[1].quality

\* The threshold table of the specification for a connected record, on metric
\* values (in the units of the model): first matching row wins.
TableTier(lat, down, loss) ==
    IF lat < 50 /\ down > 20 * Scale /\ loss < 1 * Scale THEN "excellent"
    ELSE IF lat < 100 /\ down >= 5 * Scale /\ loss < 5 * Scale THEN "good"
    ELSE IF lat < 200 /\ down >= 1 * Scale /\ loss < 10 * Scale THEN "fair"
    ELSE "poor"

AllPresent(r) == r.latencyMs # None /\ r.downlinkMbps # None /\ r.packetLossPercent # None

\* C15: every record with isConnected = false scores 'offline' whatever its
\* other fields hold, and no connected record scores 'offline'.
C15_OfflineIffDisconnected ==
    ShotResolved => (ShotTier = "offline" <=> ~ShotRecord.isConnected)

\* a disconnected record whose metrics are all within the excellent bounds
\* has been scored offline
C15_Witness ==
    /\ ShotResolved
    /\ ~ShotRecord.isConnected
    /\ ShotRecord.latencyMs = Some(30)
    /\ ShotRecord.downlinkMbps = Some(25 * Scale)
    /\ ShotRecord.packetLossPercent = Some(2)
    /\ ShotTier = "offline"

\* C16: a connected record with latency < 50, downlink > 20 and loss < 1 (all
\* present) scores 'excellent'; with latency = 50, downlink = 20 or loss = 1
\* (one, two or all three of them at the boundary, the others inside the
\* excellent bounds) it scores 'good'.
C16_ExcellentAndItsEdges ==
    (ShotResolved /\ ShotRecord.isConnected /\ AllPresent(ShotRecord)) =>
        LET lat  == ShotRecord.latencyMs[1]
            down == ShotRecord.downlinkMbps[1]
            loss == ShotRecord.packetLossPercent[1]
            inside == lat < 50 /\ down > 20 * Scale /\ loss < 1 * Scale
            onEdge == /\ lat <= 50 /\ down >= 20 * Scale /\ loss <= 1 * Scale
                      /\ (lat = 50 \/ down = 20 * Scale \/ loss = 1 * Scale)
        IN  /\ inside => ShotTier = "excellent"
            /\ onEdge => ShotTier = "good"
            /\ ShotTier = "excellent" => inside

\* the record with all three metrics on the boundary has been scored good
C16_Witness ==
    /\ ShotResolved
    /\ ShotRecord.isConnected
    /\ ShotRecord.latencyMs = Some(50)
    /\ ShotRecord.downlinkMbps = Some(20 * Scale)
    /\ ShotRecord.packetLossPercent = Some(1 * Scale)
    /\ ShotTier = "good"

\* C17: for a connected record with all three metrics present the score is
\* the first matching row of the threshold table, and every record maps to
\* exactly one of the five tiers.
C17_ThresholdTable ==
    ShotResolved =>
        /\ ShotTier \in Tiers
        /\ (ShotRecord.isConnected /\ AllPresent(ShotRecord)) =>
              ShotTier = TableTier(ShotRecord.latencyMs[1], ShotRecord.downlinkMbps[1],
                                   ShotRecord.packetLossPercent[1])

\* scenario 2 (150 ms, 2 Mbps, 3 %) has been scored fair
C17_Witness ==
    /\ ShotResolved
    /\ ShotRecord.isConnected
    /\ ShotRecord.latencyMs = Some(150)
    /\ ShotRecord.downlinkMbps = Some(2 * Scale)
    /\ ShotRecord.packetLossPercent = Some(3 * Scale)
    /\ ShotTier = "fair"

\* C18: a connected record with latencyMs, downlinkMbps and packetLossPercent
\* all absent scores 'poor', whether or not failureReason is set; the same
\* record with isConnected = false scores 'offline'.
C18_EmptyRecord ==
    (/\ ShotResolved
     /\ ShotRecord.latencyMs = None
     /\ ShotRecord.downlinkMbps = None
     /\ ShotRecord.packetLossPercent = None)
        => ShotTier = IF ShotRecord.isConnected THEN "poor" ELSE "offline"

\* the empty connected record of a timed-out run has been scored poor
C18_Witness ==
    /\ ShotResolved
    /\ ShotRecord.isConnected
    /\ ShotRecord.latencyMs = None
    /\ ShotRecord.downlinkMbps = None
    /\ ShotRecord.packetLossPercent = None
    /\ ShotRecord.failureReason = Some("timeout")
    /\ ShotTier = "poor"

\* C19: a connected record whose latencyMs is absent scores 'poor' for every
\* downlinkMbps and packetLossPercent; an absent latency is scored as 999 ms,
\* an absent downlink as 0 Mbps and an absent loss as 100 %.
C19_Sentinels ==
    (ShotResolved /\ ShotRecord.isConnected) =>
        LET lat  == IF ShotRecord.latencyMs = None THEN 999 ELSE ShotRecord.latencyMs[1]
            down == IF ShotRecord.downlinkMbps = None THEN 0 ELSE ShotRecord.downlinkMbps[1]
            loss == IF ShotRecord.packetLossPercent = None
                       THEN 100 * Scale ELSE ShotRecord.packetLossPercent[1]
        IN  /\ ShotTier = TableTier(lat, down, loss)
            /\ ShotRecord.latencyMs = None => ShotTier = "poor"

\* scenario 4: latency absent, 10 Mbps, 0.5 % has been scored poor
C19_Witness ==
    /\ ShotResolved
    /\ ShotRecord.isConnected
    /\ ShotRecord.latencyMs = None
    /\ ShotRecord.downlinkMbps = Some(10 * Scale)
    /\ ShotRecord.packetLossPercent = Some(5)
    /\ ShotTier = "poor"

\* record r with the fields the scorer does not read taken from a
WithAux(r, a) ==
    [r EXCEPT !.timestamp = a.timestamp, !.networkType = a.networkType,
              !.cellularGeneration = a.cellularGeneration, !.wifiRssi = a.wifiRssi,
              !.cellularRssi = a.cellularRssi, !.jitterMs = a.jitterMs,
              !.failureReason = a.failureReason]

\* C20: the tier does not depend on signal strength or any other non-scored
\* field: records that agree on isConnected, latencyMs, downlinkMbps and
\* packetLossPercent get the same score whatever their wifiRssi, cellularRssi,
\* networkType, cellularGeneration, jitterMs, timestamp and failureReason.
C20_TierIgnoresOtherFields ==
    ShotResolved =>
        \A a \in AuxVariants :
            scoreNetworkQuality(TypedMeasurement(WithAux(ShotRecord, a))) = ShotTier

\* a cellular record with weak signal and a failureReason has been scored
\* excellent on its metrics alone
C20_Witness ==
    /\ ShotResolved
    /\ ShotRecord.networkType = "cellular"
    /\ ShotRecord.cellularRssi # None
    /\ ShotRecord.failureReason # None
    /\ ShotTier = "excellent"

\* the session has not been torn down
Alive == phase # "unmounted"

\* C21: isLoading is true exactly while a measurement of the session is in
\* progress: it equals the mutual-exclusion flag, it is true while a run is in
\* flight (from the step that accepted it until the end of its completion
\* handling) and false when none is.
C21_LoadingIffMeasuring ==
    Alive =>
        /\ isLoading = isMeasuringRef
        /\ isLoading = (inflight # <<>>)

\* a run has just completed whose onMeasure raised inside the catch block, and
\* the session is idle again
C21_Witness ==
    /\ Alive
    /\ lastEvent.kind = "complete"
    /\ ~lastEvent.outcome.ok
    /\ options.onMeasure = "throws"
    /\ lastEvent.settled = "rejected"
    /\ ~isLoading
    /\ ~isMeasuringRef

\* C22: error reflects the last measurement: it is the failure message of the
\* most recently completed run if that run failed, and null if it succeeded
\* or if no run has completed.
C22_ErrorReflectsLastRun ==
    Alive =>
        error = IF completedRuns.last = NoOutcome \/ completedRuns.last.ok
                   THEN None
                   ELSE Some(ErrorMsg(completedRuns.last.err))

\* C23: quality, measurement and lastMeasuredAt are null until the first
\* successful completion; lastMeasuredAt is the time of the last successful
\* measurement, changes only in the completion of a run whose native call
\* resolved, and never decreases.
C23_LastMeasuredAt ==
    /\ [](Alive =>
            IF completedRuns.lastOk = None
               THEN quality = None /\ measurement = None /\ lastMeasuredAt = None
               ELSE lastMeasuredAt = Some(completedRuns.lastOk[1].at))
    /\ [][lastMeasuredAt' # lastMeasuredAt =>
             /\ CompleteStep
             /\ lastEvent'.outcome.ok
             /\ lastMeasuredAt' = Some(now)
             /\ (lastMeasuredAt # None => lastMeasuredAt[1] <= lastMeasuredAt'[1])]_vars

\* a run that started after a successful one has failed at a later time:
\* lastMeasuredAt is still the time of the success
C23_Witness ==
    /\ Alive
    /\ lastEvent.kind = "complete"
    /\ ~lastEvent.outcome.ok
    /\ runsStarted = 2
    /\ completedRuns.lastOk # None
    /\ lastMeasuredAt = Some(0)
    /\ now = 1

\* C24: the resume subscription exists only while the session is alive and
\* measureOnResume is enabled: at most one listener of the session is
\* registered at any time, also when measureOnResume is toggled; exactly one
\* while the session is mounted with measureOnResume = true; none after
\* teardown, so an application state change after teardown starts no run.
C24_SubscriptionLifetime ==
    /\ listeners <= 1
    /\ listeners > 0 => (phase = "mounted" /\ options.measureOnResume # Some(FALSE))
    /\ (phase = "mounted" /\ options.measureOnResume = Some(TRUE)) => listeners = 1
    /\ phase = "unmounted" => listeners = 0
    /\ (phase = "unmounted" /\ lastEvent.kind = "appstate") =>
          (lastEvent.settled = "undefined" /\ cbLog = <<>>)

\* the application has become active after the teardown of an idle session
\* that had measureOnResume = true, and no run was started
C24_Witness ==
    /\ phase = "unmounted"
    /\ options.measureOnResume = Some(TRUE)
    /\ lastEvent.kind = "appstate"
    /\ lastEvent.origin = "active"
    /\ listeners = 0
    /\ inflight = <<>>
    /\ ~isMeasuringRef

\* C25: onMeasure fires once per completed measurement: the completion of a
\* run invokes it exactly once, with (result, null) when the native call
\* resolved and with (null, error) when it rejected, and no other step (a
\* trigger accepted or rejected included) invokes it.
C25_OnMeasureOncePerRun ==
    /\ (lastEvent.kind = "complete" /\ options.onMeasure # "none") =>
          /\ Len(cbLog) = 1
          /\ cbLog[1] = IF lastEvent.outcome.ok
                           THEN [result |-> Some(NetworkQualityResultOf(lastEvent.outcome.record)),
                                 error  |-> None]
                           ELSE [result |-> None,
                                 error  |-> Some(ErrorMsg(lastEvent.outcome.err))]
    /\ lastEvent.kind # "complete" => cbLog = <<>>

\* C26: every run a watch session starts (from mount, resume or refresh)
\* calls measureNetworkQuality with extended equal to the configured value, or
\* true when unspecified, and timeoutMs equal to the configured value, or 3000
\* when unspecified.
C26_RunArguments ==
    \A i \in 1..Len(inflight) :
        /\ inflight[i].origin \in {"mount", "resume", "refresh"}
        /\ inflight[i].args.extended =
              (IF options.extended = None THEN TRUE ELSE options.extended[1])
        /\ inflight[i].args.timeoutMs =
              (IF options.timeoutMs = None THEN 3000 ELSE options.timeoutMs[1])

\* a run started by an application resume is in flight for a session
\* configured with extended = false and its own timeout
C26_Witness ==
    /\ Len(inflight) = 1
    /\ inflight[1].origin = "resume"
    /\ options.extended = Some(FALSE)
    /\ inflight[1].args = [extended |-> FALSE, timeoutMs |-> 1000]

C28_SettleClearsFlag ==
    /\ lastEvent.kind = "complete" =>
          /\ ~isMeasuringRef
          /\ inflight = <<>>
          /\ Alive => ~isLoading
    /\ (lastEvent.kind = "refresh" /\ ~lastEvent.busy) =>
          (lastEvent.settled = "pending" /\ isMeasuringRef /\ Len(inflight) = 1)
    /\ (/\ lastEvent.kind = "appstate"
        /\ lastEvent.origin = "active"
        /\ ~lastEvent.busy
        /\ listeners > 0) =>
          (lastEvent.settled = "pending" /\ isMeasuringRef /\ Len(inflight) = 1)

\* refresh() has started a run after a run whose onMeasure raised on the
\* success path
C28_Witness ==
    /\ Alive
    /\ lastEvent.kind = "refresh"
    /\ lastEvent.settled = "pending"
    /\ options.onMeasure = "throws"
    /\ completedRuns.last.ok
    /\ isLoading

\* C29: session data is never a mix of runs: whenever quality is non-null,
\* error is null, quality is the score of measurement, and measurement is the
\* record of the most recent successfully completed run of the session.
C29_NoMixOfRuns ==
    (Alive /\ quality # None) =>
        /\ error = None
        /\ measurement # None
        /\ quality = Some(scoreNetworkQuality(measurement[1]))
        /\ completedRuns.lastOk # None
        /\ measurement = Some(TypedMeasurement(completedRuns.lastOk[1].record))

\* the second successful run of a session has just completed with a record
\* that scores excellent
C29_Witness ==
    /\ Alive
    /\ lastEvent.kind = "complete"
    /\ lastEvent.outcome.ok
    /\ runsStarted = 2
    /\ measurement # None
    /\ quality = Some("excellent")
    /\ lastMeasuredAt = Some(1)

\* the position of a tier in offline < poor < fair < good < excellent
Rank(t) ==
    CASE t = "offline"   -> 0
      [] t = "poor"      -> 1
      [] t = "fair"      -> 2
      [] t = "good"      -> 3
      [] t = "excellent" -> 4

\* metric value b is at least as good as a, an absent value being the worst:
\* for latency and loss lower is better, for downlink higher is better
LowerIsBetter(a, b) == a = None \/ (b # None /\ b[1] <= a[1])
HigherIsBetter(a, b) == a = None \/ (b # None /\ b[1] >= a[1])

\* record r with its three scored metrics replaced
WithMetrics(r, lat, down, loss) ==
    [r EXCEPT !.latencyMs = lat, !.downlinkMbps = down, !.packetLossPercent = loss]

\* the rows of the threshold table that hold of the metric values
RowsHolding(lat, down, loss) ==
    {row \in {"excellent", "good", "fair"} :
        CASE row = "excellent" -> lat < 50  /\ down > 20 * Scale  /\ loss < 1 * Scale
          [] row = "good"      -> lat < 100 /\ down >= 5 * Scale  /\ loss < 5 * Scale
          [] row = "fair"      -> lat < 200 /\ down >= 1 * Scale  /\ loss < 10 * Scale}

\* C30: scoreNetworkQuality is monotone in offline < poor < fair < good <
\* excellent: for a connected record, every record that is at least as good
\* in each metric (lower latency, higher downlink, lower loss, a present value
\* in place of an absent one) scores at least as high, so removing a metric
\* never raises the tier; the rows of the table are nested, so the tier is the
\* best row that holds (poor when none does).
C30_ScoreIsMonotone ==
    (ShotResolved /\ ShotRecord.isConnected) =>
        /\ \A lat \in GridLatency, down \in GridDownlink, loss \in GridLoss :
              (/\ LowerIsBetter(ShotRecord.latencyMs, lat)
               /\ HigherIsBetter(ShotRecord.downlinkMbps, down)
               /\ LowerIsBetter(ShotRecord.packetLossPercent, loss))
                 => Rank(scoreNetworkQuality(TypedMeasurement(
                            WithMetrics(ShotRecord, lat, down, loss)))) >= Rank(ShotTier)
        /\ LET rows == RowsHolding(
                          IF ShotRecord.latencyMs = None THEN 999 ELSE ShotRecord.latencyMs[1],
                          IF ShotRecord.downlinkMbps = None THEN 0 ELSE ShotRecord.downlinkMbps[1],
                          IF ShotRecord.packetLossPercent = None
                             THEN 100 * Scale ELSE ShotRecord.packetLossPercent[1])
           IN  /\ "excellent" \in rows => "good" \in rows
               /\ "good" \in rows => "fair" \in rows
               /\ Rank(ShotTier) = 1 + Cardinality(rows)

\* a connected record without latency has been scored poor, and the same
\* record with a latency of 30 ms scores excellent
C30_Witness ==
    /\ ShotResolved
    /\ ShotRecord.isConnected
    /\ ShotRecord.latencyMs = None
    /\ ShotRecord.downlinkMbps = Some(25 * Scale)
    /\ ShotRecord.packetLossPercent = Some(2)
    /\ ShotTier = "poor"
    /\ scoreNetworkQuality(TypedMeasurement(
           WithMetrics(ShotRecord, Some(30), Some(25 * Scale), Some(2)))) = "excellent"

\* C31: a connected record whose packetLossPercent is absent scores 'poor'
\* for every latency and downlink; hence every call with extended = false,
\* whose record carries no packetLossPercent, resolves with 'poor' or
\* 'offline', never with 'fair', 'good' or 'excellent'.
C31_NoLossMeansPoor ==
    ShotResolved =>
        /\ (ShotRecord.isConnected /\ ShotRecord.packetLossPercent = None) =>
              ShotTier = "poor"
        /\ (lastShot.args # None /\ lastShot.args[1].extended = Some(FALSE)) =>
              ShotTier \in {"poor", "offline"}

\* a call with extended = false has resolved with a connected record of
\* 30 ms and 25 Mbps, scored poor
C31_Witness ==
    /\ ShotResolved
    /\ lastShot.args # None
    /\ lastShot.args[1].extended = Some(FALSE)
    /\ ShotRecord.isConnected
    /\ ShotRecord.latencyMs = Some(30)
    /\ ShotRecord.downlinkMbps = Some(25 * Scale)
    /\ ShotRecord.packetLossPercent = None
    /\ ShotTier = "poor"

\* C32: a failed run changes only quality and error: the completion of a run
\* whose native call rejected leaves measurement and lastMeasuredAt at the
\* values of the last successful run, sets error and clears quality; the start
\* of a run sets isLoading and the flag and clears error, and quality,
\* measurement and lastMeasuredAt do not change at the start of a run nor in
\* any step during which the session stays Measuring.
C32_FailureAndStartFrame ==
    [][/\ (CompleteStep /\ ~lastEvent'.outcome.ok) =>
             /\ UNCHANGED <<measurement, lastMeasuredAt>>
             /\ Alive => (quality' = None /\ error' # None)
       /\ (TriggerStep /\ runsStarted' # runsStarted) =>
             /\ UNCHANGED <<quality, measurement, lastMeasuredAt>>
             /\ isMeasuringRef'
             /\ isLoading'
             /\ error' = None
       /\ (isMeasuringRef /\ isMeasuringRef') =>
             UNCHANGED <<quality, measurement, lastMeasuredAt>>]_vars

\* a failure has followed a success: quality is null and error is set while
\* measurement and lastMeasuredAt are still those of the successful run
C32_Witness ==
    /\ CompletedFailed
    /\ completedRuns.lastOk # None
    /\ quality = None
    /\ error # None
    /\ measurement = Some(TypedMeasurement(completedRuns.lastOk[1].record))
    /\ lastMeasuredAt = Some(completedRuns.lastOk[1].at)

====
